---- MODULE Spec2Model ----
(***************************************************************************)
(* Model of internal/driver/fetch.go: the profile acquisition and merge    *)
(* engine (fetchProfiles, chunkedGrab, concurrentGrab, combineProfiles,    *)
(* grabProfile, setTmpDir and their helpers).                              *)
(*                                                                         *)
(* Pointers are modelled by records with a "nil" flag, a nil error by the  *)
(* empty string.  The profile type (parse, scale, merge, validate) lives   *)
(* outside fetch.go; the model keeps of a profile what fetch.go reads and  *)
(* what the properties speak about: the fragments it was built from (ids), *)
(* its sample-type shape, its summed sample value and its mappings.        *)
(***************************************************************************)
EXTENDS Integers, Sequences, FiniteSets, TLC

\* ------------------------------------------------------------------ bounds

\* Completion order inside a chunk: a task may finish while at most Window
\* tasks before it in the chunk are still running (every order for chunks of
\* up to Window + 1 tasks).
Window == 1

\* The number of base addresses ranges over 0..MaxBase.
MaxBase == 1

\* ------------------------------------------------------- program constants

\* const chunkSize = 64
chunkSize == 64

\* ------------------------------------------------------------ nil values

NoErr == ""

\* A Go string that names a file, a build identity or a URL is the sequence of
\* its path components; the empty string is the empty sequence.
Empty == <<>>

NilProfile ==
    [nil |-> TRUE, via |-> "", ids |-> <<>>, shape |-> 0, value |-> 0,
     Mapping |-> <<>>]

\* Build identities, file names and canonical source URLs of the model.
BuildIDs == {<<"b1">>, <<"b2">>}
URLs == {<<"http:", "r">>, <<"http:", "q">>, <<"http:", "x">>, <<"http:", "p">>}
LocalFiles == {<<"f1">>, <<"usr", "f1">>, <<"home", "pprof", "binaries", "f1">>,
               <<"home", "pprof", "binaries", "b1", "f1">>,
               <<"home", "pprof", "binaries", "b1", "g1">>}

\* plugin.MappingSources: a map from key to entry list, m, a function on the
\* keys present.  The nil map and the empty map made by MappingSources{}.
NilMsrc == [nil |-> TRUE, m |-> <<>>]
EmptyMsrc == [nil |-> FALSE, m |-> <<>>]

\* The entries of key k in map m, none when the key is absent.
Entries(m, k) == IF k \in DOMAIN m THEN m[k] ELSE <<>>

\* type profileSource struct: the zero value.
ZeroSource ==
    [addr |-> "", scale |-> 0, p |-> NilProfile, msrc |-> NilMsrc,
     remote |-> FALSE, err |-> NoErr]

Min(a, b) == IF a < b THEN a ELSE b

RECURSIVE SumSeq(_)
SumSeq(q) == IF q = <<>> THEN 0 ELSE Head(q) + SumSeq(Tail(q))

RECURSIVE Flatten(_)
Flatten(qq) == IF qq = <<>> THEN <<>> ELSE Head(qq) \o Flatten(Tail(qq))

\* The elements of sequence q that satisfy Keep, in order.
SelectIdx(q, Keep(_)) ==
    LET ix == SelectSeq([i \in 1..Len(q) |-> i], Keep)
    IN [k \in 1..Len(ix) |-> q[ix[k]]]

\* ------------------------------------------------------------ environment

\* What the outside world answers for one source address:
\*   fetcher  what the injected plugin.Fetcher returns for it: an error, no
\*            profile and no error, or a profile;
\*   fsrc     the source string the plugin.Fetcher returns with it;
\*   url      the URL adjustURL makes of the address, Empty when the address
\*            is not recognised as a URL;
\*   perf     whether the local file starts with PERFILE2;
\*   io       whether the HTTP fetch / conversion / open and the parse succeed;
\*   valid    whether the parsed profile passes CheckValid;
\*   shape    the sample-type shape of the profile;
\*   maps     the mappings of the profile.
Mappings1 == << [BuildID |-> <<"b1">>, File |-> <<"usr", "f1">>, Start |-> 1] >>
Mappings2 == << [BuildID |-> Empty, File |-> Empty, Start |-> 1],
                [BuildID |-> Empty, File |-> <<"f1">>, Start |-> 2] >>
Mappings3 == << [BuildID |-> <<"b1">>, File |-> Empty, Start |-> 1],
                [BuildID |-> <<"b1">>, File |-> <<"usr", "f1">>, Start |-> 2] >>

AllWorlds ==
    [fetcher : {"err", "nil", "prof"}, fsrc : {Empty, <<"http:", "p">>},
     url : {Empty, <<"http:", "r">>}, perf : BOOLEAN, io : BOOLEAN,
     valid : BOOLEAN, shape : {1}, maps : {<<>>, Mappings1, Mappings2, Mappings3}]

\* The worlds the coordinator runs draw from, by the address that names them.
World(addr) ==
    LET base == [fetcher |-> "nil", fsrc |-> Empty, url |-> Empty, perf |-> FALSE,
                 io |-> TRUE, valid |-> TRUE, shape |-> 1, maps |-> Mappings1]
    IN CASE addr = "F" -> [base EXCEPT !.io = FALSE]
         [] addr = "L" -> base
         [] addr = "R" -> [base EXCEPT !.url = <<"http:", "r">>, !.maps = Mappings2]
         [] addr = "Q" -> [base EXCEPT !.url = <<"http:", "q">>, !.maps = Mappings2]
         [] addr = "X" -> [base EXCEPT !.url = <<"http:", "x">>, !.shape = 2]
         [] addr = "E" -> [base EXCEPT !.fetcher = "err"]
         [] addr = "P" -> [base EXCEPT !.fetcher = "prof", !.fsrc = <<"http:", "p">>,
                                       !.io = FALSE]
         [] OTHER -> [base EXCEPT !.valid = FALSE]

\* The local binaries the object tool can see, in directory-listing order:
\* name, embedded build identity, and whether obj.Open succeeds on the file.
BinFiles ==
    << [name |-> <<"home", "pprof", "binaries", "b1", "f1">>, bid |-> <<"b2">>, elf |-> TRUE],
       [name |-> <<"home", "pprof", "binaries", "b1", "g1">>, bid |-> <<"b1">>, elf |-> TRUE],
       [name |-> <<"home", "pprof", "binaries", "f1">>, bid |-> <<"b2">>, elf |-> TRUE] >>

\* -------------------------------------------- the profile type (black box)

\* profile.Parse of the bytes obtained for world w by task id.
Parse(w, id, via) ==
    [nil |-> FALSE, via |-> via, ids |-> <<id>>, shape |-> w.shape, value |-> 1,
     Mapping |-> w.maps]

\* (*Profile).Scale: every sample value is multiplied by the ratio.
Scale(p, ratio) == [p EXCEPT !.value = @ * ratio]

\* measurement.ScaleProfiles: fails when the sample-type shapes differ.
ScaleProfiles(profiles) ==
    IF \A i, j \in 1..Len(profiles) : profiles[i].shape = profiles[j].shape
    THEN NoErr ELSE "scale"

\* profile.Merge: the merged profile holds every fragment's samples and
\* mappings, in input order; fails on structurally incompatible profiles.
Merge(profiles) ==
    IF \E i, j \in 1..Len(profiles) : profiles[i].shape # profiles[j].shape
    THEN [p |-> NilProfile, err |-> "merge"]
    ELSE [p |-> [nil |-> FALSE, via |-> "merge",
                 ids |-> Flatten([i \in 1..Len(profiles) |-> profiles[i].ids]),
                 shape |-> profiles[1].shape,
                 value |-> SumSeq([i \in 1..Len(profiles) |-> profiles[i].value]),
                 Mapping |-> Flatten([i \in 1..Len(profiles) |-> profiles[i].Mapping])],
          err |-> NoErr]

\* ------------------------------------------------------------ fetch.go

\* A message handed to the feedback sink (ui.Print, ui.PrintErr): its text and
\* its arguments.
Msg(text) == [msg |-> text, addr |-> "", dir |-> Empty, got |-> 0, want |-> 0]

\* filepath.Base of a non-empty name, filepath.Join of names.
Base(f) == <<f[Len(f)]>>
Join(a, b) == a \o b

\* PPROF_BINARY_PATH split into its entries; unset, the one default directory
\* $HOME/pprof/binaries.
HOME == <<"home">>
SearchPath(binaryPath) ==
    IF binaryPath = <<>> THEN << Join(HOME, <<"pprof", "binaries">>) >> ELSE binaryPath

\* filepath.Glob(dir/*): the names directly under dir, in listing order.
Glob(files, dir) ==
    LET under(i) == /\ Len(files[i].name) = Len(dir) + 1
                    /\ SubSeq(files[i].name, 1, Len(dir)) = dir
    IN SelectIdx([i \in 1..Len(files) |-> files[i].name], under)

\* The candidate names of mapping m under one search-path entry, in the order
\* they are tried.
FileNames(files, path, m, baseName) ==
    (IF m.BuildID # Empty
     THEN << Join(Join(path, m.BuildID), baseName) >> \o Glob(files, Join(path, m.BuildID))
     ELSE <<>>)
    \o (IF baseName # Empty THEN << Join(path, baseName) >> ELSE <<>>)

\* obj.Open(name): the file record it opens, or none.
Opens(files, name) == {i \in 1..Len(files) : files[i].name = name /\ files[i].elf}
BuildIDOf(files, name) == files[CHOOSE i \in Opens(files, name) : TRUE].bid

\* A candidate is accepted when it opens and, for a mapping with a build
\* identity, its embedded build identity is that one.
Accepts_AnyBuildID(files, m, name) == Opens(files, name) # {}
Accepts(files, m, name) ==
    /\ Opens(files, name) # {}
    /\ ~(m.BuildID # Empty /\ m.BuildID # BuildIDOf(files, name))

\* One mapping of locateBinaries: the overrides for the first mapping, then the
\* search; the mapping as left, and the candidates reported as mismatching.
LocateMapping(files, searchPath, s, m0, i) ==
    LET m1 == IF i = 1 /\ s.ExecName # Empty THEN [m0 EXCEPT !.File = s.ExecName] ELSE m0
        m == IF i = 1 /\ s.BuildID # Empty THEN [m1 EXCEPT !.BuildID = s.BuildID] ELSE m1
        baseName == IF m.File # Empty THEN Base(m.File) ELSE Empty
        names == Flatten([k \in 1..Len(searchPath) |->
                            FileNames(files, searchPath[k], m, baseName)])
        hits == {k \in 1..Len(names) : Accepts(files, m, names[k])}
        first == IF hits = {} THEN Len(names) + 1
                 ELSE CHOOSE k \in hits : \A h \in hits : k <= h
        isMismatch(k) == k < first /\ Opens(files, names[k]) # {}
    IN [m |-> IF hits = {} THEN m ELSE [m EXCEPT !.File = names[first]],
        mismatch |-> SelectIdx(names, isMismatch)]

\* locateBinaries: the profile with its mappings rewritten, and the mismatch
\* reports made on the way.
locateBinaries(p, s, files, binaryPath) ==
    LET located == [i \in 1..Len(p.Mapping) |->
                      LocateMapping(files, SearchPath(binaryPath), s, p.Mapping[i], i)]
        names == Flatten([i \in 1..Len(located) |-> located[i].mismatch])
    IN [p |-> [p EXCEPT !.Mapping = [i \in 1..Len(located) |-> located[i].m]],
        printed |-> [k \in 1..Len(names) |->
                       [Msg("Ignoring local file: build-id mismatch") EXCEPT
                          !.dir = names[k]]]]

\* collectMappingSources: the provenance map of p for source, and p with the
\* keyless mappings' File set to source.
RECURSIVE CollectFrom(_, _, _, _)
CollectFrom(maps, source, i, ms) ==
    IF i > Len(maps) THEN ms
    ELSE LET m == maps[i]
             key == IF m.BuildID # Empty THEN m.BuildID
                    ELSE IF m.File # Empty THEN m.File ELSE source
         IN CollectFrom(maps, source, i + 1,
                        [k \in DOMAIN ms \cup {key} |->
                           IF k = key THEN Append(Entries(ms, k), <<source, m.Start>>)
                           ELSE ms[k]])

collectMappingSources_FirstOnly(p, source) ==
    [ms |-> [nil |-> FALSE,
             m |-> CollectFrom(SubSeq(p.Mapping, 1, Min(1, Len(p.Mapping))), source, 1, <<>>)],
     p |-> [p EXCEPT !.Mapping =
              [i \in 1..Len(p.Mapping) |->
                 IF p.Mapping[i].BuildID = Empty /\ p.Mapping[i].File = Empty
                 THEN [p.Mapping[i] EXCEPT !.File = source] ELSE p.Mapping[i]]]]
collectMappingSources(p, source) ==
    [ms |-> [nil |-> FALSE, m |-> CollectFrom(p.Mapping, source, 1, <<>>)],
     p |-> [p EXCEPT !.Mapping =
              [i \in 1..Len(p.Mapping) |->
                 IF p.Mapping[i].BuildID = Empty /\ p.Mapping[i].File = Empty
                 THEN [p.Mapping[i] EXCEPT !.File = source] ELSE p.Mapping[i]]]]

\* unsourceMappings: a File that is an absolute URL is reset on the mappings
\* without a build identity.
IsAbsURL(f) == f \in URLs
unsourceMappings(p) ==
    [p EXCEPT !.Mapping =
        [i \in 1..Len(p.Mapping) |->
            IF p.Mapping[i].BuildID = Empty /\ IsAbsURL(p.Mapping[i].File)
            THEN [p.Mapping[i] EXCEPT !.File = Empty] ELSE p.Mapping[i]]]

\* fetch: the built-in resolver. First match wins: HTTP when adjustURL
\* recognises a URL, the perf converter for a PERFILE2 file, else a plain open;
\* then the parse. src is set on the HTTP route, also when the fetch fails.
Route(w) == IF w.url # Empty THEN "http" ELSE IF w.perf THEN "perf" ELSE "file"

fetch(w, id, duration) ==
    [p |-> IF w.io THEN Parse(w, id, "builtin") ELSE NilProfile,
     src |-> IF Route(w) = "http" THEN w.url ELSE Empty,
     err |-> IF w.io THEN NoErr ELSE Route(w),
     route |-> Route(w),
     printed |-> IF Route(w) = "http"
                 THEN << [Msg("Fetching profile over HTTP from") EXCEPT !.dir = w.url] >>
                      \o (IF duration > 0 THEN << Msg("Please wait...") >> ELSE <<>>)
                 ELSE IF Route(w) = "perf" THEN << Msg("Converting to a profile.proto...") >>
                 ELSE <<>>]

\* os.Getenv("PPROF_BINARY_PATH"): unset.
PPROF_BINARY_PATH == <<>>

\* grabProfile for the task id whose address the world w answers: the slot
\* values (p, msrc, remote, err); in steps, the calls it made, in order; in
\* said, what it handed to the feedback sink.  fetcher tells whether a
\* plugin.Fetcher was supplied.
grabProfile(s, id, w, scale, fetcher) ==
    LET none == [p |-> NilProfile, msrc |-> NilMsrc, remote |-> FALSE, err |-> NoErr,
                 steps |-> IF fetcher THEN <<"fetcher">> ELSE <<>>, said |-> <<>>]
        p1 == IF fetcher /\ w.fetcher = "prof" THEN Parse(w, id, "fetcher") ELSE NilProfile
        b == fetch(w, id, s.Seconds)
        p2 == IF p1.nil THEN b.p ELSE p1
        src == IF p1.nil THEN b.src ELSE w.fsrc
        steps2 == IF p1.nil THEN Append(none.steps, "fetch") ELSE none.steps
        said2 == IF p1.nil THEN b.printed ELSE <<>>
        located == locateBinaries(Scale(p2, scale), s, BinFiles, PPROF_BINARY_PATH)
        steps5 == steps2 \o <<"validate", "scale", "locate">>
        said5 == said2 \o located.printed
        c == collectMappingSources(located.p, src)
    IN IF fetcher /\ w.fetcher = "err"
       THEN [none EXCEPT !.err = "fetcher"]
       ELSE IF p1.nil /\ b.err # NoErr
       THEN [none EXCEPT !.p = b.p, !.err = b.err, !.steps = steps2, !.said = said2]
       ELSE IF ~w.valid
       THEN [none EXCEPT !.p = p2, !.err = "invalid", !.steps = Append(steps2, "validate"),
                         !.said = said2]
       ELSE IF src # Empty
       THEN [p |-> c.p, msrc |-> c.ms, remote |-> TRUE, err |-> NoErr,
             steps |-> Append(steps5, "collect"), said |-> said5]
       ELSE [none EXCEPT !.p = located.p, !.steps = steps5, !.said = said5]

\* combineProfiles: ScaleProfiles, Merge, then the union of the provenance
\* maps, each key's entries concatenated in input order.
combineProfiles_LastWins(profiles, msrcs) ==
    LET merged == Merge(profiles)
        failed == [p |-> NilProfile, msrc |-> NilMsrc, err |-> NoErr]
        last(k) == CHOOSE i \in 1..Len(msrcs) :
                      /\ k \in DOMAIN msrcs[i].m
                      /\ \A j \in 1..Len(msrcs) : k \in DOMAIN msrcs[j].m => j <= i
    IN IF ScaleProfiles(profiles) # NoErr
       THEN [failed EXCEPT !.err = ScaleProfiles(profiles)]
       ELSE IF merged.err # NoErr
       THEN [failed EXCEPT !.err = merged.err]
       ELSE [p |-> merged.p,
             msrc |-> [nil |-> FALSE,
                       m |-> [k \in UNION {DOMAIN msrcs[i].m : i \in 1..Len(msrcs)} |->
                                msrcs[last(k)].m[k]]],
             err |-> NoErr]
combineProfiles(profiles, msrcs) ==
    LET merged == Merge(profiles)
        failed == [p |-> NilProfile, msrc |-> NilMsrc, err |-> NoErr]
    IN IF ScaleProfiles(profiles) # NoErr
       THEN [failed EXCEPT !.err = ScaleProfiles(profiles)]
       ELSE IF merged.err # NoErr
       THEN [failed EXCEPT !.err = merged.err]
       ELSE [p |-> merged.p,
             msrc |-> [nil |-> FALSE,
                       m |-> [k \in UNION {DOMAIN msrcs[i].m : i \in 1..Len(msrcs)} |->
                                Flatten([i \in 1..Len(msrcs) |-> Entries(msrcs[i].m, k)])]],
             err |-> NoErr]

\* setTmpDir: PPROF_TMPDIR when it is set, whether or not it can be used;
\* else the first of $HOME/pprof and os.TempDir() that MkdirAll can make, each
\* failure reported.  env: tmpdir (PPROF_TMPDIR, Empty when unset) and, for
\* each directory, whether MkdirAll succeeds on it (usable).
HomePprof == Join(HOME, <<"pprof">>)
TempDir == <<"tmp">>
OverrideDir == <<"override">>

setTmpDir(env) ==
    LET tries == << HomePprof, TempDir >>
        good == {i \in 1..Len(tries) : tries[i] \in env.usable}
        first == IF good = {} THEN Len(tries) + 1
                 ELSE CHOOSE i \in good : \A j \in good : i <= j
    IN IF env.tmpdir # Empty
       THEN [dir |-> env.tmpdir, err |-> NoErr, printed |-> <<>>]
       ELSE [dir |-> IF good = {} THEN Empty ELSE tries[first],
             err |-> IF good = {} THEN "failed to identify temp dir" ELSE NoErr,
             printed |-> [i \in 1..(first - 1) |->
                            [Msg("Could not use temp dir") EXCEPT !.dir = tries[i]]]]

\* ---------------------------------------------------- the coordinator

\* The post-processing of concurrentGrab (after wg.Wait) on the slots of one
\* chunk: failed tasks are reported and skipped, the others are collected and
\* their slots cleared; nothing collected is the empty result; else the
\* combiner's result, the remote flag and the number collected.
TaskFailed_RetrievalOnly(slot) == slot.err \notin {NoErr, "invalid"}
TaskFailed_NoProfile(slot) == slot.p.nil
TaskFailed(slot) == slot.err # NoErr

\* The slots the loop of lines 159-169 keeps: a failed one is skipped.
Kept_All(slots) == slots
Kept(slots) == SelectIdx(slots, LAMBDA i : ~TaskFailed(slots[i]))

concurrentGrab(slots) ==
    LET ok(i) == ~TaskFailed(slots[i])
        bad(i) == TaskFailed(slots[i])
        kept == Kept(slots)
        profiles == [i \in 1..Len(kept) |-> kept[i].p]
        msrcs == [i \in 1..Len(kept) |-> kept[i].msrc]
        failedSlots == SelectIdx(slots, bad)
        c == combineProfiles(profiles, msrcs)
        empty == [p |-> NilProfile, msrc |-> NilMsrc, save |-> FALSE, count |-> 0,
                  err |-> NoErr]
    IN [ret |-> IF Len(profiles) = 0 THEN empty
                ELSE IF c.err # NoErr THEN [empty EXCEPT !.err = c.err]
                ELSE [p |-> c.p, msrc |-> c.msrc,
                      save |-> \E i \in 1..Len(kept) : kept[i].remote,
                      count |-> Len(profiles), err |-> NoErr],
        printed |-> [i \in 1..Len(failedSlots) |->
                       [Msg(failedSlots[i].err) EXCEPT !.addr = failedSlots[i].addr]],
        slots |-> [i \in 1..Len(slots) |-> IF ok(i) THEN ZeroSource ELSE slots[i]],
        handed |-> IF Len(profiles) = 0 THEN <<>>
                   ELSE << Flatten([i \in 1..Len(profiles) |-> profiles[i].ids]) >>]

\* The switch of chunkedGrab on one chunk's result: an error aborts, a chunk
\* without a profile is skipped, the first profile is adopted, a later one is
\* combined with the running aggregate.  agg: p, msrc, save, count, err.
mergeChunk_LastChunk(agg, ch) ==
    LET c == combineProfiles(<<agg.p, ch.p>>, <<agg.msrc, ch.msrc>>)
        abort(e) == [p |-> NilProfile, msrc |-> NilMsrc, save |-> FALSE, count |-> 0,
                     err |-> e]
    IN IF ch.err # NoErr THEN abort(ch.err)
       ELSE IF ch.p.nil THEN agg
       ELSE IF agg.p.nil
       THEN [p |-> ch.p, msrc |-> ch.msrc, save |-> ch.save, count |-> ch.count,
             err |-> NoErr]
       ELSE IF c.err # NoErr THEN abort(c.err)
       ELSE [p |-> c.p, msrc |-> c.msrc, save |-> ch.save, count |-> ch.count,
             err |-> NoErr]
mergeChunk(agg, ch) ==
    LET c == combineProfiles(<<agg.p, ch.p>>, <<agg.msrc, ch.msrc>>)
        abort(e) == [p |-> NilProfile, msrc |-> NilMsrc, save |-> FALSE, count |-> 0,
                     err |-> e]
    IN IF ch.err # NoErr THEN abort(ch.err)
       ELSE IF ch.p.nil THEN agg
       ELSE IF agg.p.nil
       THEN [p |-> ch.p, msrc |-> ch.msrc, save |-> ch.save, count |-> ch.count,
             err |-> NoErr]
       ELSE IF c.err # NoErr THEN abort(c.err)
       ELSE [p |-> c.p, msrc |-> c.msrc, save |-> agg.save \/ ch.save,
             count |-> agg.count + ch.count, err |-> NoErr]

\* end := start + chunkSize, capped at len(sources).
ChunkEnd_Whole(from, n) == n
ChunkEnd(from, n) == Min(from + chunkSize, n)

\* ------------------------------------------------------------- state

VARIABLES
    s,        \* the source configuration: Sources, Base, ExecName, BuildID
    fetcher,  \* whether o.Fetch is supplied
    pc,       \* where the coordinator (the goroutine of fetchProfiles) stands
    sources,  \* []profileSource: one slot per task
    task,     \* per slot, the goroutine of its task: "idle", "running", "done"
    start,    \* chunkedGrab: the loop variable
    agg,      \* chunkedGrab: p, msrc, save, count, and the error it returns
    chunk,    \* what concurrentGrab returned for the chunk at start
    ui,       \* what the coordinator handed to o.UI.PrintErr, in order
    said,     \* per task, what its goroutine handed to the feedback sink
    tmp,      \* the save step: the environment setTmpDir met, its answer, and
              \* whether the copy was written
    ret,      \* what fetchProfiles returns: p, err
    hist,     \* history: the fragment lists handed to combineProfiles
    reached,  \* history: the later steps of fetchProfiles entered, and
              \* "overtaken" once a task finished before an earlier one
    gin,      \* a lone grabProfile call: its inputs
    gout      \* a lone grabProfile call: its result

vars == << s, fetcher, pc, sources, task, start, agg, chunk, ui, said, tmp, ret,
           hist, reached, gin, gout >>

N == Len(s.Sources) + Len(s.Base)

NoAgg == [p |-> NilProfile, msrc |-> NilMsrc, save |-> FALSE, count |-> 0, err |-> NoErr]
NoTmp == [asked |-> FALSE, env |-> [tmpdir |-> Empty, usable |-> {}],
          dir |-> Empty, err |-> NoErr, saved |-> FALSE]
NoRet == [p |-> NilProfile, err |-> NoErr]
NoGrab == [p |-> NilProfile, msrc |-> NilMsrc, remote |-> FALSE, err |-> NoErr,
           steps |-> <<>>, said |-> <<>>]
NoGin == [w |-> World("L"), id |-> 1, scale |-> 1, fetcher |-> FALSE]

\* The list lengths and the addresses the runs draw from: the first
\* numerator address is drawn alone, the other numerator addresses share the
\* address drawn for their chunk, every base address is drawn alone.
SrcCounts == {0, 1, 2, chunkSize, 2 * chunkSize}
FirstAddrs(n) == IF n < chunkSize THEN {"F", "L", "R", "Q", "X", "E", "P", "I"}
                 ELSE IF n < 2 * chunkSize THEN {"F", "L", "Q", "X"} ELSE {"L"}
ChunkAddrs == {"F", "R", "X"}

ChunkOf(i) == ((i - 1) \div chunkSize) + 1

Init ==
    /\ \E nS \in SrcCounts, nB \in 0..MaxBase :
         \E first \in FirstAddrs(nS + nB),
            rest \in [1..ChunkOf(nS) -> ChunkAddrs],
            b \in ChunkAddrs :
            /\ s = [Sources |-> [i \in 1..nS |-> IF i = 1 THEN first ELSE rest[ChunkOf(i)]],
                    Base |-> [j \in 1..nB |-> b], ExecName |-> Empty, BuildID |-> Empty,
                    Seconds |-> 0]
            /\ fetcher \in IF nS + nB < chunkSize THEN BOOLEAN ELSE {TRUE}
    /\ pc = "start"
    /\ sources = <<>>
    /\ task = <<>>
    /\ start = 0
    /\ agg = NoAgg
    /\ chunk = NoAgg
    /\ ui = <<>>
    /\ said = <<>>
    /\ tmp = NoTmp
    /\ ret = NoRet
    /\ hist = <<>>
    /\ reached = {}
    /\ gin = NoGin
    /\ gout = NoGrab

\* fetchProfiles, lines 40-55: one task per numerator address with scale 1,
\* then one per base address with scale -1; chunkedGrab starts.
BuildSources_AllPlus ==
    /\ pc = "start"
    /\ sources' = [i \in 1..N |-> [ZeroSource EXCEPT !.addr = (s.Sources \o s.Base)[i],
                                                      !.scale = 1]]
    /\ task' = [i \in 1..N |-> "idle"]
    /\ said' = [i \in 1..N |-> <<>>]
    /\ start' = 0
    /\ agg' = NoAgg
    /\ pc' = "chunk"
    /\ UNCHANGED << s, fetcher, chunk, ui, tmp, ret, hist, reached, gin, gout >>
BuildSources ==
    /\ pc = "start"
    /\ sources' = [i \in 1..Len(s.Sources) |->
                     [ZeroSource EXCEPT !.addr = s.Sources[i], !.scale = 1]]
                  \o [j \in 1..Len(s.Base) |->
                     [ZeroSource EXCEPT !.addr = s.Base[j], !.scale = -1]]
    /\ task' = [i \in 1..N |-> "idle"]
    /\ said' = [i \in 1..N |-> <<>>]
    /\ start' = 0
    /\ agg' = NoAgg
    /\ pc' = "chunk"
    /\ UNCHANGED << s, fetcher, chunk, ui, tmp, ret, hist, reached, gin, gout >>

\* chunkedGrab's loop head and concurrentGrab's go statements: the tasks of
\* the chunk at start are started.
Spawn ==
    /\ pc = "chunk"
    /\ start < Len(sources)
    /\ task' = [i \in 1..Len(task) |->
                  IF start < i /\ i <= ChunkEnd(start, Len(sources))
                  THEN "running" ELSE task[i]]
    /\ pc' = "wait"
    /\ UNCHANGED << s, fetcher, sources, start, agg, chunk, ui, said, tmp, ret, hist,
                    reached, gin, gout >>

\* The slot task i writes.
SlotOf(i) == i

\* The tasks of the chunk at start, and the ones that may finish next: the
\* model's bound on completion order (see Window).
ChunkTasks == (start + 1)..ChunkEnd(start, Len(sources))
Running == {i \in ChunkTasks : task[i] = "running"}
MayFinish ==
    IF Running = {} THEN {}
    ELSE LET lo == CHOOSE i \in Running : \A j \in Running : i <= j
         IN {i \in Running : i <= lo + Window}

\* The goroutine of task i: grabProfile, its four results stored in the slot.
TaskRun(i) ==
    /\ task[i] = "running"
    /\ \E r \in {grabProfile(s, i, World(sources[i].addr), sources[i].scale, fetcher)} :
          /\ sources' = [sources EXCEPT ![SlotOf(i)] =
                           [@ EXCEPT !.p = r.p, !.msrc = r.msrc, !.remote = r.remote,
                                     !.err = r.err]]
          /\ said' = [said EXCEPT ![i] = r.said]
    /\ task' = [task EXCEPT ![i] = "done"]
    /\ reached' = IF \E j \in Running : j < i THEN reached \cup {"overtaken"} ELSE reached
    /\ UNCHANGED << s, fetcher, pc, start, agg, chunk, ui, tmp, ret, hist, gin, gout >>

\* wg.Wait(): every goroutine of the chunk called wg.Done.
WaitDone_FailFast(from, to) ==
    \/ \A i \in (from + 1)..to : task[i] = "done"
    \/ \E i \in (from + 1)..to : task[i] = "done" /\ sources[i].err # NoErr
WaitDone_AnyDone(from, to) == from = to \/ \E i \in (from + 1)..to : task[i] = "done"
WaitDone_LastOnly(from, to) == from = to \/ task[to] = "done"
WaitDone(from, to) == \A i \in (from + 1)..to : task[i] = "done"

\* concurrentGrab after the barrier, lines 154-180.
Collect ==
    /\ pc = "wait"
    /\ WaitDone(start, ChunkEnd(start, Len(sources)))
    /\ LET to == ChunkEnd(start, Len(sources))
           r == concurrentGrab(SubSeq(sources, start + 1, to))
       IN /\ chunk' = r.ret
          /\ sources' = [i \in 1..Len(sources) |->
                           IF start < i /\ i <= to THEN r.slots[i - start]
                           ELSE sources[i]]
          /\ ui' = ui \o r.printed
          /\ hist' = hist \o r.handed
    /\ pc' = "merge"
    /\ UNCHANGED << s, fetcher, task, start, agg, said, tmp, ret, reached, gin, gout >>

\* chunkedGrab's switch, lines 123-139, and the loop's step.
MergeChunk_GoesOn ==
    /\ pc = "merge"
    /\ agg' = mergeChunk(agg, chunk)
    /\ hist' = IF chunk.err = NoErr /\ ~chunk.p.nil /\ ~agg.p.nil
               THEN Append(hist, agg.p.ids \o chunk.p.ids) ELSE hist
    /\ pc' = "chunk"
    /\ start' = start + chunkSize
    /\ UNCHANGED << s, fetcher, sources, task, chunk, ui, said, tmp, ret, reached, gin,
                    gout >>
MergeChunk ==
    /\ pc = "merge"
    /\ agg' = mergeChunk(agg, chunk)
    /\ hist' = IF chunk.err = NoErr /\ ~chunk.p.nil /\ ~agg.p.nil
               THEN Append(hist, agg.p.ids \o chunk.p.ids) ELSE hist
    /\ IF agg'.err # NoErr
       THEN pc' = "fetched" /\ start' = start
       ELSE pc' = "chunk" /\ start' = start + chunkSize
    /\ UNCHANGED << s, fetcher, sources, task, chunk, ui, said, tmp, ret, reached, gin,
                    gout >>

\* chunkedGrab's loop ends, line 141.
ChunkedReturn ==
    /\ pc = "chunk"
    /\ ~(start < Len(sources))
    /\ pc' = "fetched"
    /\ UNCHANGED << s, fetcher, sources, task, start, agg, chunk, ui, said, tmp, ret, hist,
                    reached, gin, gout >>

\* fetchProfiles, lines 56-64: chunkedGrab's error, then no profile at all,
\* then the report of a partial fetch.
NoneFetched_Never(cnt) == cnt < 0
NoneFetched(cnt) == cnt = 0
PartialFetch(want, got) == want # got

CheckCount ==
    /\ pc = "fetched"
    /\ IF agg.err # NoErr
       THEN ret' = [p |-> NilProfile, err |-> agg.err] /\ pc' = "done" /\ ui' = ui
       ELSE IF NoneFetched(agg.count)
       THEN /\ ret' = [p |-> NilProfile, err |-> "failed to fetch any profiles"]
            /\ pc' = "done"
            /\ ui' = ui
       ELSE /\ ret' = ret
            /\ pc' = "symbolize"
            /\ ui' = IF PartialFetch(Len(sources), agg.count)
                     THEN Append(ui, [Msg("fetched %d profiles out of %d") EXCEPT
                                        !.got = agg.count, !.want = Len(sources)])
                     ELSE ui
    /\ UNCHANGED << s, fetcher, sources, task, start, agg, chunk, said, tmp, hist,
                    reached, gin, gout >>

\* fetchProfiles, lines 66-71: the symbolizer, which may fail; then
\* RemoveUninteresting and unsourceMappings.
Symbolize ==
    /\ pc = "symbolize"
    /\ reached' = reached \cup {"symbolize"}
    /\ \E symOK \in BOOLEAN :
         IF symOK
         THEN agg' = [agg EXCEPT !.p = unsourceMappings(agg.p)] /\ ret' = ret /\ pc' = "save"
         ELSE agg' = agg /\ ret' = [p |-> NilProfile, err |-> "symbolize"] /\ pc' = "done"
    /\ UNCHANGED << s, fetcher, sources, task, start, chunk, ui, said, tmp, hist, gin,
                    gout >>

\* The environments the save step can meet: PPROF_TMPDIR unset or set, and
\* the directories that can be created and written.
TmpEnvs == [tmpdir : {Empty, OverrideDir}, usable : SUBSET {OverrideDir, HomePprof, TempDir}]

\* newTempFile(dir, ...) and p.Write: the file is made only in a usable
\* directory, and the write may fail.
SaveMessage(env, dir, writeOK) ==
    IF dir \in env.usable /\ writeOK
    THEN [Msg("Saved profile in") EXCEPT !.dir = dir]
    ELSE Msg("Could not save profile")

\* fetchProfiles, lines 73-97: with a remote source, the copy of the profile.
Save ==
    /\ pc = "save"
    /\ IF agg.save
       THEN \E env \in TmpEnvs, writeOK \in BOOLEAN :
              LET r == setTmpDir(env)
              IN /\ reached' = reached \cup {"save"}
                 /\ tmp' = [asked |-> TRUE, env |-> env, dir |-> r.dir, err |-> r.err,
                             saved |-> r.err = NoErr /\ r.dir \in env.usable /\ writeOK]
                 /\ IF r.err # NoErr
                    THEN /\ ret' = [p |-> NilProfile, err |-> r.err]
                         /\ ui' = ui \o r.printed
                         /\ pc' = "done"
                    ELSE /\ ret' = ret
                         /\ ui' = (ui \o r.printed) \o << SaveMessage(env, r.dir, writeOK) >>
                         /\ pc' = "final"
       ELSE /\ pc' = "final"
            /\ UNCHANGED << reached, tmp, ret, ui >>
    /\ UNCHANGED << s, fetcher, sources, task, start, agg, chunk, said, hist, gin,
                    gout >>

\* fetchProfiles, lines 99-103: the final CheckValid and the return.
FinalCheck ==
    /\ pc = "final"
    /\ \E validOK \in BOOLEAN :
         ret' = IF validOK THEN [p |-> agg.p, err |-> NoErr]
                ELSE [p |-> NilProfile, err |-> "invalid"]
    /\ pc' = "done"
    /\ UNCHANGED << s, fetcher, sources, task, start, agg, chunk, ui, said, tmp, hist,
                    reached, gin, gout >>

Next ==
    \/ BuildSources
    \/ Spawn
    \/ \E i \in MayFinish : TaskRun(i)
    \/ Collect
    \/ MergeChunk
    \/ ChunkedReturn
    \/ CheckCount
    \/ Symbolize
    \/ Save
    \/ FinalCheck

Spec == Init /\ [][Next]_vars

\* The steps of TaskRun and Collect as the scheduler sees them: a goroutine in
\* flight reaches its wg.Done, and wg.Wait() returns once all have.
SomeTaskDone ==
    \E i \in MayFinish : task[i] = "running" /\ task' = [task EXCEPT ![i] = "done"]
Barrier ==
    /\ pc = "wait"
    /\ WaitDone(start, ChunkEnd(start, Len(sources)))
    /\ pc' = "merge"

\* The run under the scheduling the program relies on: the coordinator's own
\* goroutine keeps taking its next step, and every fetch in flight completes,
\* so some started goroutine always reaches its wg.Done.
SpecFair ==
    /\ Spec
    /\ WF_vars(BuildSources \/ Spawn \/ MergeChunk \/ ChunkedReturn)
    /\ WF_task(SomeTaskDone)
    /\ WF_pc(Barrier)

\* ------------------------------------------------- grabProfile on its own

\* One call of grabProfile for every world, task, scale, fetcher and
\* overrides, outside any coordinator run.
InitGrab ==
    /\ gin \in [w : AllWorlds, id : 1..2, scale : {1, -1}, fetcher : BOOLEAN]
    /\ gout = NoGrab
    /\ s \in [Sources : {<<>>}, Base : {<<>>}, ExecName : {Empty, <<"bin", "exe">>},
              BuildID : {Empty, <<"b1">>}, Seconds : {0, 30}]
    /\ fetcher = FALSE
    /\ pc = "grab"
    /\ sources = <<>>
    /\ task = <<>>
    /\ start = 0
    /\ agg = NoAgg
    /\ chunk = NoAgg
    /\ ui = <<>>
    /\ said = <<>>
    /\ tmp = NoTmp
    /\ ret = NoRet
    /\ hist = <<>>
    /\ reached = {}

Grab ==
    /\ pc = "grab"
    /\ gout' = grabProfile(s, gin.id, gin.w, gin.scale, gin.fetcher)
    /\ pc' = "grabbed"
    /\ UNCHANGED << s, fetcher, sources, task, start, agg, chunk, ui, said, tmp, ret, hist,
                    reached, gin >>

NextGrab == Grab

SpecGrab == InitGrab /\ [][NextGrab]_vars

\* ------------------------------------------- adjustURL and httpGet

\* Durations are counted in milliseconds.
Second == 1000
MaxInt32 == 2147483647

\* strconv.ParseInt(q, 10, 32) of a string given as its characters: an
\* optional sign, then decimal digits only, the value within 32 bits.
DigitChars == <<"0", "1", "2", "3", "4", "5", "6", "7", "8", "9">>
IsDigit(c) == \E d \in 1..10 : DigitChars[d] = c
DigitVal(c) == (CHOOSE d \in 1..10 : DigitChars[d] = c) - 1

RECURSIVE ParseDigits(_, _)
ParseDigits(q, acc) ==
    IF q = <<>> THEN [ok |-> TRUE, val |-> acc]
    ELSE IF ~IsDigit(Head(q)) THEN [ok |-> FALSE, val |-> 0]
    ELSE IF acc > (MaxInt32 - DigitVal(Head(q))) \div 10 THEN [ok |-> FALSE, val |-> 0]
    ELSE ParseDigits(Tail(q), 10 * acc + DigitVal(Head(q)))

ParseInt(q) ==
    LET signed == q # <<>> /\ Head(q) \in {"-", "+"}
        digits == IF signed THEN Tail(q) ELSE q
        r == ParseDigits(digits, 0)
    IN IF digits = <<>> \/ ~r.ok THEN [ok |-> FALSE, val |-> 0]
       ELSE [ok |-> TRUE, val |-> IF signed /\ Head(q) = "-" THEN 0 - r.val ELSE r.val]

\* fmt.Sprint of a non-negative int, as its characters.
RECURSIVE Sprint(_)
Sprint(n) == IF n < 10 THEN << DigitChars[n + 1] >>
             ELSE Append(Sprint(n \div 10), DigitChars[(n % 10) + 1])

\* adjustURL for a source whose URL form is u: host tells whether url.Parse
\* finds a host (as given or after prefixing http://), seconds is the value
\* of its query parameter "seconds" ("" when absent).  The URL it returns and
\* the timeout.
adjustURL(u, duration, timeout) ==
    LET us == ParseInt(u.seconds)
        d == IF duration > 0 THEN duration
             ELSE IF u.seconds # <<>> /\ us.ok THEN us.val * Second
             ELSE duration
    IN IF ~u.host THEN [url |-> [host |-> FALSE, seconds |-> <<>>], timeout |-> 0]
       ELSE [url |-> [u EXCEPT !.seconds = IF duration > 0 THEN Sprint(duration \div Second)
                                           ELSE @],
             timeout |-> IF timeout <= 0
                         THEN (IF d > 0 THEN d + (d \div 2) ELSE 60 * Second)
                         ELSE timeout]

\* httpGet: the ResponseHeaderTimeout of the transport it makes.
httpGet_NoMargin(url, timeout) == timeout
httpGet(url, timeout) == timeout + 5 * Second

\* One HTTP fetch for every URL form, duration and timeout.
SecondsParams == {<<>>, <<"a", "b">>, <<"-", "5">>, <<"0">>, <<"2", "0">>, <<"7">>,
                  <<"3", "0", "0", "0", "0", "0", "0", "0", "0", "0">>}
Durations == {0 - 1 * Second, 0, 7 * Second, 30 * Second}
Timeouts == {0 - 1 * Second, 0, 10 * Second}

InitTimeout ==
    /\ gin \in [u : [host : BOOLEAN, seconds : SecondsParams], duration : Durations,
                 timeout : Timeouts]
    /\ gout = NoGrab
    /\ s = [Sources |-> <<>>, Base |-> <<>>, ExecName |-> Empty, BuildID |-> Empty,
            Seconds |-> 0]
    /\ fetcher = FALSE
    /\ pc = "adjust"
    /\ sources = <<>>
    /\ task = <<>>
    /\ start = 0
    /\ agg = NoAgg
    /\ chunk = NoAgg
    /\ ui = <<>>
    /\ said = <<>>
    /\ tmp = NoTmp
    /\ ret = NoRet
    /\ hist = <<>>
    /\ reached = {}

\* fetch, lines 368-374: adjustURL, then, for a recognised URL, fetchURL and
\* httpGet with its timeout.
FetchOverHTTP ==
    /\ pc = "adjust"
    /\ LET a == adjustURL(gin.u, gin.duration, gin.timeout)
       IN gout' = [url |-> a.url, timeout |-> a.timeout, http |-> a.url.host,
                   header |-> IF a.url.host THEN httpGet(a.url, a.timeout) ELSE 0]
    /\ pc' = "adjusted"
    /\ UNCHANGED << s, fetcher, sources, task, start, agg, chunk, ui, said, tmp, ret, hist,
                    reached, gin >>

NextTimeout == FetchOverHTTP

SpecTimeout == InitTimeout /\ [][NextTimeout]_vars

\* ------------------------------------------------------ fetch on its own

\* isPerfFile: the file opens and its first 8 bytes are PERFILE2.  A file is
\* opens (whether os.Open succeeds) and bytes (its content, as characters).
Bytes(a, b, c, d, e, f, g, h) == << a, b, c, d, e, f, g, h >>
isPerfFile_SevenBytes(file) ==
    /\ file.opens
    /\ Len(file.bytes) >= 7
    /\ SubSeq(file.bytes, 1, 7) = << "P", "E", "R", "F", "I", "L", "E" >>
isPerfFile(file) ==
    /\ file.opens
    /\ file.bytes # <<>>
    /\ [i \in 1..8 |-> IF i <= Len(file.bytes) THEN file.bytes[i] ELSE "0"]
         = Bytes("P", "E", "R", "F", "I", "L", "E", "2")

\* The first bytes of the files a fetch can meet.
Headers ==
    { <<>>,
      Bytes("P", "E", "R", "F", "I", "L", "E", "2"),
      Bytes("P", "E", "R", "F", "I", "L", "E", "1"),
      Bytes("p", "e", "r", "f", "i", "l", "e", "2"),
      << "P", "E", "R", "F", "I", "L", "E" >>,
      Bytes("P", "E", "R", "F", "I", "L", "E", "2") \o << "x", "y" >>,
      << "x" >> \o Bytes("P", "E", "R", "F", "I", "L", "E", "2") }

\* What the world answers for a source given by its URL form and its file.
WorldOf(in) ==
    [fetcher |-> "nil", fsrc |-> Empty,
     url |-> IF adjustURL(in.u, in.duration, 0).url.host THEN <<"http:", "r">> ELSE Empty,
     perf |-> isPerfFile(in.file), io |-> in.io, valid |-> TRUE, shape |-> 1,
     maps |-> Mappings1]

InitFetch ==
    /\ gin \in [u : [host : BOOLEAN, seconds : {<<>>}],
                 file : [opens : BOOLEAN, bytes : Headers],
                 io : BOOLEAN, duration : {0, 30 * Second}]
    /\ gout = NoGrab
    /\ s = [Sources |-> <<>>, Base |-> <<>>, ExecName |-> Empty, BuildID |-> Empty,
            Seconds |-> 0]
    /\ fetcher = FALSE
    /\ pc = "resolve"
    /\ sources = <<>>
    /\ task = <<>>
    /\ start = 0
    /\ agg = NoAgg
    /\ chunk = NoAgg
    /\ ui = <<>>
    /\ said = <<>>
    /\ tmp = NoTmp
    /\ ret = NoRet
    /\ hist = <<>>
    /\ reached = {}

Resolve ==
    /\ pc = "resolve"
    /\ gout' = fetch(WorldOf(gin), 1, gin.duration)
    /\ pc' = "resolved"
    /\ UNCHANGED << s, fetcher, sources, task, start, agg, chunk, ui, said, tmp, ret, hist,
                    reached, gin >>

NextFetch == Resolve

SpecFetch == InitFetch /\ [][NextFetch]_vars

\* ------------------------------------------------ locateBinaries on its own

\* The files, listings and search paths one call of locateBinaries can meet:
\* any files of the pool, listed in either order, and PPROF_BINARY_PATH unset
\* or naming the directories a and b in either order.
FilePool ==
    << [name |-> <<"a", "b1", "f1">>, bid |-> <<"b2">>, elf |-> TRUE],
       [name |-> <<"a", "b1", "g1">>, bid |-> <<"b1">>, elf |-> TRUE],
       [name |-> <<"b", "b1", "f1">>, bid |-> <<"b1">>, elf |-> TRUE],
       [name |-> <<"a", "f1">>, bid |-> <<"b2">>, elf |-> TRUE],
       [name |-> <<"b", "f1">>, bid |-> <<"b1">>, elf |-> FALSE] >>
Reverse(q) == [i \in 1..Len(q) |-> q[Len(q) + 1 - i]]
Listings ==
    {SelectIdx(FilePool, LAMBDA i : i \in pick) : pick \in SUBSET (1..Len(FilePool))}
    \cup {Reverse(SelectIdx(FilePool, LAMBDA i : i \in pick)) :
             pick \in SUBSET (1..Len(FilePool))}
BinaryPaths == {<<>>, << <<"a">> >>, << <<"a">>, <<"b">> >>, << <<"b">>, <<"a">> >>}
InitLocate ==
    /\ gin \in [files : Listings, path : BinaryPaths, maps : {Mappings1, Mappings2, Mappings3}]
    /\ gout = NoGrab
    /\ s \in [Sources : {<<>>}, Base : {<<>>}, ExecName : {Empty, <<"bin", "f1">>},
              BuildID : {Empty, <<"b2">>}, Seconds : {0}]
    /\ fetcher = FALSE
    /\ pc = "locate"
    /\ sources = <<>>
    /\ task = <<>>
    /\ start = 0
    /\ agg = NoAgg
    /\ chunk = NoAgg
    /\ ui = <<>>
    /\ said = <<>>
    /\ tmp = NoTmp
    /\ ret = NoRet
    /\ hist = <<>>
    /\ reached = {}

Locate ==
    /\ pc = "locate"
    /\ gout' = locateBinaries(Parse([World("L") EXCEPT !.maps = gin.maps], 1, "builtin"),
                              s, gin.files, gin.path)
    /\ pc' = "located"
    /\ UNCHANGED << s, fetcher, sources, task, start, agg, chunk, ui, said, tmp, ret, hist,
                    reached, gin >>

NextLocate == Locate

SpecLocate == InitLocate /\ [][NextLocate]_vars

\* ------------------------------------------------------- properties

\* The address, scale and outcome of task i, as the configuration fixes them.
AddrOf(i) == (s.Sources \o s.Base)[i]
ScaleOf(i) == IF i <= Len(s.Sources) THEN 1 ELSE -1
Outcome(i) == grabProfile(s, i, World(AddrOf(i)), ScaleOf(i), fetcher)

\* Task i has run and left no error / an error in its slot (a collected slot
\* is cleared, a failed one keeps its error).
Succeeded(i) == task[i] = "done" /\ sources[i].err = NoErr
Failed(i) == task[i] = "done" /\ sources[i].err # NoErr

Tasks == 1..Len(sources)
SucceededIds == SelectIdx([i \in Tasks |-> i], Succeeded)
FailedIds == SelectIdx([i \in Tasks |-> i], Failed)
K == Len(SucceededIds)

\* C1: when no fetch task succeeds (any number of addresses, none included),
\* fetchProfiles returns the error "failed to fetch any profiles" and no
\* profile, and neither the symbolizer nor the save step is ever reached.
C1_NoneFetched ==
    (\A i \in Tasks : ~Succeeded(i)) =>
        /\ pc \notin {"symbolize", "save", "final"}
        /\ reached \cap {"symbolize", "save"} = {}
        /\ ~tmp.asked
        /\ pc = "done" =>
              /\ ret.p.nil
              /\ ret.err = "failed to fetch any profiles"

\* C1 witness: a run over more than one chunk in which every task has failed
\* has returned.
C1_Witness ==
    /\ pc = "done"
    /\ Len(sources) > chunkSize
    /\ \A i \in Tasks : Failed(i)
    /\ ret.err = "failed to fetch any profiles"

\* The tasks whose fetch succeeds, in task-list order, and the report of a
\* partial fetch.
Fetches(i) == Outcome(i).err = NoErr
OkIds == SelectIdx([i \in 1..N |-> i], Fetches)
FetchedReports ==
    SelectIdx(ui, LAMBDA k : ui[k].msg = "fetched %d profiles out of %d")
ChunkedGrabReturnedOK ==
    pc \in {"symbolize", "save", "final", "done"} /\ agg.err = NoErr

OkInChunk == SelectIdx([i \in 1..N |-> i], LAMBDA i : i \in ChunkTasks /\ Fetches(i))
ErrorReports == SelectIdx(ui, LAMBDA k : ui[k].addr # "")
ReportsDue ==
    LET failing == SelectIdx([i \in 1..N |-> i],
                             LAMBDA i : i <= ChunkEnd(start, N) /\ ~Fetches(i))
    IN [k \in 1..Len(failing) |->
          [Msg(Outcome(failing[k]).err) EXCEPT !.addr = AddrOf(failing[k])]]
ChunkCompatible(ok) ==
    \A i, j \in 1..Len(ok) : World(AddrOf(ok[i])).shape = World(AddrOf(ok[j])).shape
ProvenanceKept(ok) ==
    LET kept == [j \in 1..Len(ok) |-> Outcome(ok[j]).msrc.m]
    IN \A k \in BuildIDs \cup URLs \cup LocalFiles :
          Entries(chunk.msrc.m, k) = Flatten([j \in 1..Len(ok) |-> Entries(kept[j], k)])

\* What C3 says of concurrentGrab apart from the count: each failed task is
\* reported once, in task-list order, and dropped; the successful fragments
\* are handed to the combiner in task-list order with their provenance; an
\* error is returned only when the combiner fails.
C3_Rest(ok) ==
    /\ ErrorReports = ReportsDue
    /\ ok # <<>> => (hist # <<>> /\ hist[Len(hist)] = ok)
    /\ chunk.err = NoErr <=> ChunkCompatible(ok)
    /\ (chunk.err = NoErr /\ ok # <<>>) =>
          /\ chunk.p.ids = ok
          /\ ProvenanceKept(ok)
          /\ chunk.save = \E j \in 1..Len(ok) : Outcome(ok[j]).remote
    /\ \A i \in ChunkTasks : sources[i] = IF Fetches(i) THEN ZeroSource
                                            ELSE [sources[i] EXCEPT !.err = Outcome(i).err]

\* C3 as stated: a failed task is reported once and dropped, the successful
\* ones are kept and combined in task-list order, the returned count is the
\* number of tasks without an error, and an error is returned only when the
\* combiner fails.
C3_AsStated ==
    pc = "merge" =>
        LET ok == OkInChunk
        IN C3_Rest(ok) /\ chunk.count = Len(ok)

\* C3 amended: as stated, except that the returned count is the number of
\* tasks without an error when concurrentGrab returns no error; with a
\* combiner error it returns count 0.
C3_TaskFailuresStayLocal ==
    pc = "merge" =>
        LET ok == OkInChunk
        IN /\ C3_Rest(ok)
           /\ chunk.count = IF chunk.err = NoErr THEN Len(ok) ELSE 0

\* C3 witness: concurrentGrab has returned a chunk of chunkSize tasks in
\* which a failed task was reported and dropped and the others combined.
C3_Witness ==
    /\ pc = "merge"
    /\ Cardinality(ChunkTasks) = chunkSize
    /\ chunk.err = NoErr
    /\ chunk.count = chunkSize - 1
    /\ \E k \in 1..Len(ui) : ui[k].addr = "F"

AnyRunning == \E i \in 1..Len(task) : task[i] = "running"

\* Task i finishes in this step and stores its own four results in its own,
\* still empty, slot; no other slot and no other task changes, and what it
\* handed to the feedback sink is its own.
WritesOwnSlot(i) ==
    /\ task[i] = "running"
    /\ task' = [task EXCEPT ![i] = "done"]
    /\ sources[i] = [ZeroSource EXCEPT !.addr = AddrOf(i), !.scale = ScaleOf(i)]
    /\ sources' = [sources EXCEPT ![i] =
                     [@ EXCEPT !.p = Outcome(i).p, !.msrc = Outcome(i).msrc,
                               !.remote = Outcome(i).remote, !.err = Outcome(i).err]]
    /\ said' = [said EXCEPT ![i] = Outcome(i).said]

\* C4: while any task of a chunk is running, the only steps are steps of
\* running tasks, each writing its own slot (p, msrc, remote, err) and nothing
\* else; the coordinator reads, clears or merges nothing until every task of
\* the chunk has finished.
C4_SlotsRaceFree ==
    [][ AnyRunning =>
          /\ \E i \in 1..Len(task) : WritesOwnSlot(i)
          /\ UNCHANGED << s, fetcher, pc, start, agg, chunk, ui, tmp, ret, hist >>
      ]_vars

\* C4 witness: a task has written its slot while a task before it in the
\* chunk is still running.
C4_Witness ==
    \E i, j \in 1..Len(task) :
        /\ i < j
        /\ task[i] = "running"
        /\ task[j] = "done"
        /\ sources[j].remote
        /\ sources[i].p.nil

\* The tasks in flight, and the successful tasks among the first n, in
\* task-list order (a collected slot without an error).
InFlight == {i \in 1..Len(task) : task[i] = "running"}
SucceededUpTo(n) == SelectIdx([i \in 1..n |-> i], Succeeded)

\* C5: the chunks are the consecutive runs of at most chunkSize tasks in
\* task-list order and never overlap: the tasks in flight are at most
\* chunkSize and all of the chunk at start, every task before that chunk has
\* completed and no task after it has started, and while a task is in flight
\* the running aggregate holds the merged results of all earlier chunks.
C5_ChunksInTurn ==
    /\ start % chunkSize = 0
    /\ Cardinality(InFlight) <= chunkSize
    /\ \A i \in 1..Len(task) :
          /\ task[i] = "running" => (start < i /\ i <= start + chunkSize)
          /\ i <= start => task[i] = "done"
          /\ i > start + chunkSize => task[i] = "idle"
    /\ InFlight # {} =>
          /\ pc = "wait"
          /\ agg.err = NoErr
          /\ agg.count = Len(SucceededUpTo(start))
          /\ agg.count > 0 => agg.p.ids = SucceededUpTo(start)

\* C5 witness: a full chunk of chunkSize tasks is in flight after an earlier
\* chunk was merged, with tasks of a later chunk not yet started.
C5_Witness ==
    /\ Cardinality(InFlight) = chunkSize
    /\ start = chunkSize
    /\ agg.count > 0
    /\ Len(task) > 2 * chunkSize
    /\ task[Len(task)] = "idle"

\* C6: when chunkedGrab returns without error, its count is the number of
\* successful tasks over all chunks and its remote flag is the OR of the
\* successful tasks' remote flags; with chunkSize + 1 sources, all
\* successful, the count is chunkSize + 1.
C6_CumulativeCountAndRemote ==
    (pc = "fetched" /\ agg.err = NoErr) =>
        LET ok == OkIds
        IN /\ agg.count = Len(ok)
           /\ agg.count = SumSeq([c \in 1..ChunkOf(N) |->
                                    Len(SelectIdx(ok, LAMBDA j : ChunkOf(ok[j]) = c))])
           /\ agg.save = \E j \in 1..Len(ok) : Outcome(ok[j]).remote
           /\ (N = chunkSize + 1 /\ Len(ok) = N) => agg.count = chunkSize + 1

\* C6 witness: chunkedGrab returns for chunkSize + 1 sources whose first
\* chunk holds no success: the one task of the second chunk is adopted first,
\* counted and remote.
C6_Witness ==
    /\ pc = "fetched"
    /\ agg.err = NoErr
    /\ N = chunkSize + 1
    /\ agg.count = 1
    /\ agg.save
    /\ \A i \in 1..chunkSize : Failed(i)

\* A chunk's result that makes chunkedGrab fail: the chunk's own combiner
\* error, or a profile that cannot be combined with the running aggregate.
ChunkFails ==
    \/ chunk.err # NoErr
    \/ ~chunk.p.nil /\ ~agg.p.nil /\ chunk.p.shape # agg.p.shape

\* C7: a combiner error, in a chunk or when a chunk is merged into the
\* running aggregate, makes the very next step of chunkedGrab its return
\* with that error; the error comes with no profile, no provenance map,
\* remote flag false and count 0, fetchProfiles returns it, and no task of a
\* later chunk is ever started.
C7_CombinerErrorAborts ==
    /\ [](agg.err # NoErr =>
            /\ agg = [p |-> NilProfile, msrc |-> NilMsrc, save |-> FALSE, count |-> 0,
                      err |-> agg.err]
            /\ pc \in {"fetched", "done"}
            /\ pc = "done" => ret = [p |-> NilProfile, err |-> agg.err]
            /\ \A i \in 1..Len(task) : i > start + chunkSize => task[i] = "idle")
    /\ [][ (pc = "merge" /\ ChunkFails) =>
              /\ pc' = "fetched"
              /\ agg'.err # NoErr
              /\ chunk.err # NoErr => agg'.err = chunk.err
              /\ task' = task
          ]_vars

\* C7 witness: the second of three chunks could not be merged into the
\* running aggregate; chunkedGrab has returned the error and the third
\* chunk's task was never started.
C7_Witness ==
    /\ pc = "done"
    /\ agg.err # NoErr
    /\ chunk.err = NoErr
    /\ start = chunkSize
    /\ Len(task) > 2 * chunkSize
    /\ task[Len(task)] = "idle"
    /\ ret.err = agg.err

\* What the built-in resolver was called for, and the calls grabProfile made.
CalledFetch == \E k \in 1..Len(gout.steps) : gout.steps[k] = "fetch"
CalledFetcher == \E k \in 1..Len(gout.steps) : gout.steps[k] = "fetcher"

\* C8 as stated: grabProfile uses the profile of the plugin.Fetcher when one
\* is supplied and returns a profile; in every other case (none supplied, it
\* returns an error, it returns no profile) the built-in fetch is called.
C8_AsStated ==
    pc = "grabbed" =>
        IF gin.fetcher /\ gin.w.fetcher = "prof"
        THEN /\ CalledFetcher
             /\ ~CalledFetch
             /\ ~gout.p.nil /\ gout.p.via = "fetcher"
        ELSE CalledFetch

\* The save step failed: it was entered and no copy was written.
SaveFailed == tmp.asked /\ ~tmp.saved
SaveReports ==
    SelectIdx(ui, LAMBDA k : ui[k].msg \in {"Could not save profile", "Could not use temp dir"})

\* C9 as stated: a failed save step (no usable temp directory, or the file
\* cannot be created or written) is reported to the feedback sink and
\* fetchProfiles goes on to the final check: it returns the aggregate
\* profile, and no error other than that check's.
C9_AsStated ==
    SaveFailed =>
        /\ SaveReports # <<>>
        /\ pc \in {"final", "done"}
        /\ pc = "done" =>
              /\ ret.err \in {NoErr, "invalid"}
              /\ ret.err = NoErr => (ret.p = agg.p /\ ~ret.p.nil)

\* The candidates of setTmpDir in the order of the environment the save step
\* met, and the usable ones among them.
Candidates ==
    (IF tmp.env.tmpdir # Empty THEN << tmp.env.tmpdir >> ELSE <<>>) \o << HomePprof, TempDir >>
UsableCandidates == SelectIdx(Candidates, LAMBDA k : Candidates[k] \in tmp.env.usable)

\* C10 as stated: setTmpDir returns the first usable candidate in the order
\* PPROF_TMPDIR, $HOME/pprof, os.TempDir(), and fails only when no candidate
\* is usable.
C10_AsStated ==
    tmp.asked =>
        IF UsableCandidates = <<>>
        THEN tmp.err # NoErr
        ELSE tmp.err = NoErr /\ tmp.dir = UsableCandidates[1]

\* The source configuration without its overrides.
NoOverrides == [s EXCEPT !.ExecName = Empty, !.BuildID = Empty]

\* C11 as stated: for a task other than the first of the list (a later
\* numerator source, a base source) the overrides ExecName and BuildID touch
\* no mapping of the fragment: it is located as it is without the overrides.
C11_AsStated ==
    (pc = "grabbed" /\ gout.err = NoErr /\ gin.id # 1) =>
        gout.p.Mapping
          = grabProfile(NoOverrides, gin.id, gin.w, gin.scale, gin.fetcher).p.Mapping

\* Mapping i as locateBinaries declares it (the overrides applied to the
\* first), the files that are candidates for it under some search-path
\* entry, and those of them that open with its build identity / another one.
DeclaredID(i) == IF i = 1 /\ s.BuildID # Empty THEN s.BuildID ELSE gin.maps[i].BuildID
DeclaredFile(i) == IF i = 1 /\ s.ExecName # Empty THEN s.ExecName ELSE gin.maps[i].File
SearchDirs == {SearchPath(gin.path)[k] : k \in 1..Len(SearchPath(gin.path))}
CandidateFiles(i) ==
    {k \in 1..Len(gin.files) :
        /\ gin.files[k].elf
        /\ \E d \in SearchDirs :
              \/ gin.files[k].name = d \o DeclaredID(i) \o <<gin.files[k].name[Len(gin.files[k].name)]>>
              \/ /\ DeclaredFile(i) # Empty
                 /\ gin.files[k].name = d \o <<DeclaredFile(i)[Len(DeclaredFile(i))]>>}
Matching(i) == {k \in CandidateFiles(i) : gin.files[k].bid = DeclaredID(i)}
Mismatching(i) == {k \in CandidateFiles(i) : gin.files[k].bid # DeclaredID(i)}
Reported == {gout.printed[k].dir : k \in 1..Len(gout.printed)}

\* C12: for a mapping with a declared build identity, in every listing and
\* search-path order, locateBinaries sets the file only to a candidate that
\* opens with that build identity; mismatching candidates do not end the
\* search (a matching candidate, when there is one, is taken); without a
\* matching candidate the file is left as declared and every mismatching
\* candidate is reported; only mismatching candidates are reported.
C12_NoMismatchAccepted ==
    pc = "located" =>
        /\ \A i \in 1..Len(gin.maps) :
              DeclaredID(i) # Empty =>
                 /\ gout.p.Mapping[i].BuildID = DeclaredID(i)
                 /\ IF Matching(i) # {}
                    THEN \E k \in Matching(i) : gout.p.Mapping[i].File = gin.files[k].name
                    ELSE /\ gout.p.Mapping[i].File = DeclaredFile(i)
                         /\ \A k \in Mismatching(i) : gin.files[k].name \in Reported
        /\ \A name \in Reported :
              \E i \in 1..Len(gin.maps) :
                 /\ DeclaredID(i) # Empty
                 /\ \E k \in Mismatching(i) : gin.files[k].name = name
        /\ ~gout.p.nil

\* C12 witness: a candidate with the mapping's exact name and another build
\* identity was reported and passed over, and a later candidate with the
\* declared build identity was taken.
C12_Witness ==
    /\ pc = "located"
    /\ gin.maps = Mappings1
    /\ s.BuildID = Empty
    /\ <<"a", "b1", "f1">> \in Reported
    /\ gout.p.Mapping[1].File = <<"b", "b1", "f1">>

\* C13: the provenance map chunkedGrab returns holds, for every key, the
\* concatenation of that key's entry lists from the successful tasks in
\* task-list order, whatever chunks they were in: its length is the sum of
\* theirs, and no key and no entry is dropped, merged or moved.
C13_ProvenanceLossless ==
    (pc = "fetched" /\ agg.err = NoErr /\ agg.count > 0) =>
        LET ok == OkIds
            from == [j \in 1..Len(ok) |-> Outcome(ok[j]).msrc.m]
            keys == UNION {DOMAIN from[j] : j \in 1..Len(ok)}
        IN /\ DOMAIN agg.msrc.m = keys
           /\ \A k \in keys :
                 /\ agg.msrc.m[k] = Flatten([j \in 1..Len(ok) |-> Entries(from[j], k)])
                 /\ Len(agg.msrc.m[k]) = SumSeq([j \in 1..Len(ok) |-> Len(Entries(from[j], k))])

\* C13 witness: tasks of two chunks, fetched from different URLs, share a
\* key; its list holds the first chunk's entries, the different one first,
\* then the second chunk's.
C13_Witness ==
    /\ pc = "fetched"
    /\ agg.err = NoErr
    /\ N = chunkSize + 1
    /\ \E k \in DOMAIN agg.msrc.m :
          /\ Len(agg.msrc.m[k]) = N
          /\ agg.msrc.m[k][1][1] = <<"http:", "q">>
          /\ agg.msrc.m[k][N][1] = <<"http:", "r">>

\* The scale the list position i carries: +1 for a numerator address, -1
\* for a base address.
Sign(i) == IF i <= Len(s.Sources) THEN 1 ELSE 0 - 1

\* C14: the task list is the numerator addresses with scale +1 followed by
\* the base addresses with scale -1; a fetched fragment's sample values are
\* the parsed ones times its task's scale before it is merged; the merged
\* profile's values are the signed sum over the merged fragments, so that a
\* numerator source and an identical base source merge to zero.
C14_SignCorrectScaling ==
    /\ pc # "start" =>
          /\ Len(sources) = Len(s.Sources) + Len(s.Base)
          /\ \A i \in 1..Len(sources) :
                /\ task[i] # "done" =>
                      /\ sources[i].scale = Sign(i)
                      /\ sources[i].addr = (s.Sources \o s.Base)[i]
                /\ ~sources[i].p.nil => sources[i].p.value = Sign(i)
    /\ ~agg.p.nil =>
          agg.p.value = SumSeq([k \in 1..Len(agg.p.ids) |-> Sign(agg.p.ids[k])])
    /\ (pc = "done" /\ ~ret.p.nil /\ s.Sources = s.Base /\ Len(ret.p.ids) = N) =>
          ret.p.value = 0

\* C14 witness: fetchProfiles returns the profile of a numerator source and
\* an identical base source, both fetched, with all values zero.
C14_Witness ==
    /\ pc = "done"
    /\ s.Sources = s.Base
    /\ ret.p.ids = <<1, 2>>
    /\ ret.p.value = 0

\* The number the "seconds" parameter of the URL stands for, if it is one.
SecondsOf(q) ==
    CASE q = <<"-", "5">> -> 0 - 5
      [] q = <<"0">> -> 0
      [] q = <<"2", "0">> -> 20
      [] q = <<"7">> -> 7
      [] OTHER -> 0

\* The capture duration in effect: the requested one when positive, else the
\* one the URL's "seconds" parameter gives.
EffectiveDuration ==
    IF gin.duration > 0 THEN gin.duration ELSE SecondsOf(gin.u.seconds) * Second

\* C15: for an HTTP source and no caller-supplied timeout, the response
\* header timeout is 1.5 times the capture duration plus 5 seconds when
\* that duration is positive (the requested duration, or, when that is not
\* positive, the URL's "seconds" parameter), else 60 seconds plus 5 seconds;
\* 30 seconds give 45 seconds plus 5.
C15_TimeoutDerivation ==
    (pc = "adjusted" /\ gout.http /\ gin.timeout <= 0) =>
        /\ IF EffectiveDuration > 0
           THEN 2 * gout.header = 3 * EffectiveDuration + 2 * 5 * Second
           ELSE gout.header = 60 * Second + 5 * Second
        /\ gin.duration = 30 * Second => gout.header = 45 * Second + 5 * Second

\* C15 witness: a fetch with no requested duration and no timeout from a URL
\* with seconds=20 waits 30 seconds plus 5.
C15_Witness ==
    /\ pc = "adjusted"
    /\ gout.http
    /\ gin.duration = 0
    /\ gin.timeout = 0
    /\ gin.u.seconds = <<"2", "0">>
    /\ gout.header = 35 * Second

\* The file starts with the 8 bytes PERFILE2.
StartsWithPERFILE2 ==
    /\ gin.file.opens
    /\ gin.file.bytes \in { Bytes("P", "E", "R", "F", "I", "L", "E", "2"),
                            Bytes("P", "E", "R", "F", "I", "L", "E", "2") \o << "x", "y" >> }
Converted ==
    \E k \in 1..Len(gout.printed) : gout.printed[k].msg = "Converting to a profile.proto..."

\* C16: fetch takes the first route that applies, in the order HTTP,
\* conversion, plain file: HTTP exactly when adjustURL finds a URL with a
\* host; else the conversion exactly when the file starts with the 8 bytes
\* PERFILE2; else the file is opened directly and never converted; the source
\* string returned is non-empty exactly on the HTTP route.
C16_FirstMatchRouting ==
    pc = "resolved" =>
        /\ gout.route = "http" <=> gin.u.host
        /\ gout.route = "perf" <=> (~gin.u.host /\ StartsWithPERFILE2)
        /\ gout.route = "file" <=> (~gin.u.host /\ ~StartsWithPERFILE2)
        /\ Converted <=> gout.route = "perf"
        /\ gout.src # Empty <=> gout.route = "http"

\* C16 witness: a local file of 8 bytes that differ from PERFILE2 in the
\* last one is opened directly and parsed.
C16_Witness ==
    /\ pc = "resolved"
    /\ gin.file.bytes = Bytes("P", "E", "R", "F", "I", "L", "E", "1")
    /\ gout.route = "file"
    /\ gout.src = Empty
    /\ ~gout.p.nil

\* The source string the retrieval of the lone call reports: the
\* plugin.Fetcher's when its profile is used, else the built-in fetch's.
ReportedSrc ==
    IF gin.fetcher /\ gin.w.fetcher = "prof" THEN gin.w.fsrc ELSE gin.w.url

\* The key mapping i of the returned fragment is filed under, and whether the
\* mapping came without build identity and file.
KeyOf(i) ==
    IF gout.p.Mapping[i].BuildID # Empty THEN gout.p.Mapping[i].BuildID
    ELSE gout.p.Mapping[i].File
Keyless(i) ==
    /\ gout.p.Mapping[i].BuildID = Empty
    /\ gin.w.maps[i].File = Empty
    /\ ~(i = 1 /\ s.ExecName # Empty)

SlotsInOrder ==
    [j \in 1..(Min(start + chunkSize, N) - start) |->
        [addr |-> AddrOf(start + j), scale |-> ScaleOf(start + j),
         p |-> Outcome(start + j).p, msrc |-> Outcome(start + j).msrc,
         remote |-> Outcome(start + j).remote, err |-> Outcome(start + j).err]]

\* C18: what concurrentGrab returns for a chunk is what its tasks' outcomes
\* give when taken in task-list order, in every schedule: the fragments and
\* provenance maps handed to the combiner and its result, the error reports
\* in order, the count and the remote flag.
C18_ScheduleIndependent ==
    pc = "merge" =>
        LET r == concurrentGrab(SlotsInOrder)
        IN /\ chunk = r.ret
           /\ Len(ui) >= Len(r.printed)
           /\ SubSeq(ui, Len(ui) - Len(r.printed) + 1, Len(ui)) = r.printed
           /\ r.handed # <<>> => (hist # <<>> /\ hist[Len(hist)] = r.handed[1])
           /\ chunk.count = IF r.ret.err = NoErr
                             THEN Cardinality({j \in 1..Len(SlotsInOrder) :
                                                 SlotsInOrder[j].err = NoErr})
                             ELSE 0

\* C18 witness: concurrentGrab has returned for a chunk in which a task
\* finished before an earlier one, with a failure reported and fragments
\* combined.
C18_Witness ==
    /\ pc = "merge"
    /\ "overtaken" \in reached
    /\ start = 0
    /\ chunk.count >= 2
    /\ ui # <<>>

\* The steps of the fetch unit in their order, the retrieval being the
\* plugin.Fetcher's, the built-in fetch's, or the one after the other.
StepOrder == <<"fetcher", "fetch", "validate", "scale", "locate", "collect">>
Rank(step) == CHOOSE k \in 1..Len(StepOrder) : StepOrder[k] = step
Did(step) == \E k \in 1..Len(gout.steps) : gout.steps[k] = step

\* The retrieval or the validation of the lone call failed.
RetrievalFails ==
    \/ gin.fetcher /\ gin.w.fetcher = "err"
    \/ ~(gin.fetcher /\ gin.w.fetcher = "prof") /\ ~gin.w.io
ValidationFails == ~RetrievalFails /\ ~gin.w.valid

\* The slot of a task as the lone call leaves it.
SlotOfCall ==
    [addr |-> "a", scale |-> gin.scale, p |-> gout.p, msrc |-> gout.msrc,
     remote |-> gout.remote, err |-> gout.err]

\* C19: the fetch unit retrieves, validates, scales, locates binaries and
\* collects provenance in that order; when the retrieval or the validation
\* fails it returns that error, not remote and without provenance, and has
\* neither scaled nor located nor collected; concurrentGrab hands no such
\* fragment to the combiner.
C19_OrderedFailFast ==
    pc = "grabbed" =>
        /\ \A k \in 1..Len(gout.steps) : \A l \in 1..Len(gout.steps) :
              k < l => Rank(gout.steps[k]) < Rank(gout.steps[l])
        /\ ValidationFails => (Did("validate") /\ gout.err = "invalid")
        /\ (RetrievalFails \/ ValidationFails) =>
              /\ gout.err # NoErr
              /\ ~gout.remote
              /\ gout.msrc = NilMsrc
              /\ ~Did("scale") /\ ~Did("locate") /\ ~Did("collect")
              /\ ~gout.p.nil => (gout.p.value = 1 /\ gout.p.Mapping = gin.w.maps)
              /\ concurrentGrab(<< SlotOfCall >>).handed = <<>>
        /\ ~(RetrievalFails \/ ValidationFails) =>
              /\ gout.err = NoErr
              /\ Did("validate") /\ Did("scale") /\ Did("locate")
              /\ Did("collect") <=> gout.remote
              /\ gout.p.value = gin.scale

\* C19 witness: a profile was retrieved with a remote source string and with
\* mappings, for a base task, and failed validation: it comes back with the
\* error, unscaled, and only retrieval and validation ran.
C19_Witness ==
    /\ pc = "grabbed"
    /\ gin.scale = 0 - 1
    /\ gin.w.url # Empty
    /\ gin.w.maps = Mappings2
    /\ gout.err = "invalid"
    /\ gout.steps = <<"fetch", "validate">>
    /\ gout.p.value = 1

\* chunkedGrab has returned.
ChunkedGrabReturned == pc \in {"fetched", "symbolize", "save", "final", "done"}

\* C20: with every fetch completing, every task of a dispatched chunk has run
\* to completion when its chunk is post-processed, also when a sibling failed
\* earlier; and chunkedGrab eventually returns, having either run every task
\* of every chunk or stopped at the chunk of the first combiner error with no
\* later task started.
C20_NoTaskAbandoned ==
    /\ [](pc = "merge" => \A i \in 1..ChunkEnd(start, Len(sources)) : task[i] = "done")
    /\ [](ChunkedGrabReturned =>
            \/ agg.err = NoErr /\ \A i \in 1..Len(task) : task[i] = "done"
            \/ /\ agg.err # NoErr
               /\ \A i \in 1..Len(task) :
                     task[i] = (IF i <= ChunkEnd(start, Len(sources))
                                THEN "done" ELSE "idle"))
    /\ <>ChunkedGrabReturned

\* C20 witness: chunkedGrab returned after more than two chunks without a
\* combiner error, a task of the first chunk having failed and a task
\* having finished before a sibling of lower index.
C20_Witness ==
    /\ pc = "fetched"
    /\ agg.err = NoErr
    /\ Len(sources) > 2 * chunkSize
    /\ \E i \in 1..chunkSize : sources[i].err # NoErr
    /\ "overtaken" \in reached
    /\ \A i \in 1..Len(task) : task[i] = "done"

====
